---- MODULE Spec2Model ----
(***************************************************************************)
(* Model of mydealz_monitor.py: the seen-id list (append_seen), the state  *)
(* file (load_state / save_state), the ordering key (comment_sort_key),    *)
(* the merge of the two markup passes (extract_comments) and the poll loop *)
(* (main, send_startup_notification, run_once).                            *)
(*                                                                         *)
(* A Python str is a sequence of code points: "20" is <<50, 48>>, "a" is   *)
(* <<97>>, "" is <<>>.  None is the record PyNone.                          *)
(***************************************************************************)
EXTENDS Integers, Sequences, FiniteSets, TLC

VARIABLES
    \* append_seen taken alone
    aState,      \* the state dict append_seen works on
    aLimit,      \* SEEN_LIMIT of the run
    aCalls,      \* the ids passed to append_seen so far, in call order
    aEffective,  \* the ids of the calls that found a non-empty id absent from the list
    \* load_state taken alone
    lFile,       \* what is at STATE_PATH
    lPc,         \* "before" | "loaded"
    lResult,     \* what load_state gave: [raised, state]
    \* extract_comments taken alone
    mDom,        \* what extract_comments_from_dom returned
    mFallback,   \* what extract_comments_from_preloaded_state returned
    mPc,         \* "before" | "extracted"
    mOut,        \* what extract_comments gave: [raised, v]
    \* the sort by comment_sort_key taken alone
    sIn,         \* the list given to sorted() / list.sort()
    sPc,         \* "before" | "sorted"
    sOut,        \* what the sort gave: [raised, v]
    \* fetch_recent_comments taken alone
    fResp,       \* what the site answers: [kind, items]
    fPc,         \* "before" | "fetched"
    fOut,        \* what fetch_recent_comments gave: [exc, v]
    \* the monitor process and its surroundings
    fs,          \* the files: fs["state"] is STATE_PATH, fs["tmp"] is STATE_PATH + ".tmp"
    SEEN_LIMIT,  \* SEEN_LIMIT of the installation
    POLL_SECONDS, \* POLL_SECONDS of the installation
    pc,          \* where main is; "down" when no process runs
    state,       \* main's state dict
    preloaded,   \* main's preloaded: [none, v]
    comments,    \* the comments list of send_startup_notification / run_once
    batch,       \* run_once's new_comments, sorted
    idx,         \* position of run_once's loop in batch
    saveRet,     \* the caller of the running save_state
    result,      \* how the last run_once ended
    slept,       \* the seconds of main's time.sleep in progress (0: not sleeping)
    \* history
    delivered,   \* per id, how many comment messages Telegram accepted (2: two or more)
    attempted,   \* the ids send_comment_notification was called for
    iterLog      \* the ids send_comment_notification was called for in this run_once

appendVars == <<aState, aLimit, aCalls, aEffective>>
loadVars == <<lFile, lPc, lResult>>
mergeVars == <<mDom, mFallback, mPc, mOut>>
sortVars == <<sIn, sPc, sOut>>
fetchVars == <<fResp, fPc, fOut>>
procVars == <<pc, state, preloaded, comments, batch, idx, saveRet, result>>
histVars == <<delivered, attempted, iterLog>>
sysVars == <<fs, SEEN_LIMIT, POLL_SECONDS, procVars, slept, histVars>>

\* ---------------------------------------------------------------- bounds
\* largest SEEN_LIMIT a run is configured with
MaxSeenLimit == 2
\* number of append_seen calls of one run of the append_seen specification
MaxCalls == 5
\* GRAPHQL_PAGE_LIMIT of the installation: the most items one response holds
PageLimit == 3

\* ------------------------------------------------------------- utilities
Range(s) == {s[i] : i \in 1..Len(s)}

Max(S) == CHOOSE x \in S : \A y \in S : y <= x

Min(S) == CHOOSE x \in S : \A y \in S : x <= y

\* s[-n:] of a Python list, n > 0
LastN(s, n) == IF Len(s) <= n THEN s ELSE SubSeq(s, Len(s) - n + 1, Len(s))

\* s[:n] of a Python list, n >= 0
FirstN(s, n) == IF Len(s) <= n THEN s ELSE SubSeq(s, 1, n)

\* list(dict.fromkeys(s)): the first occurrence of each element, in order
RECURSIVE Dedup(_)
Dedup(s) ==
    IF s = <<>> THEN <<>>
    ELSE LET d == Dedup(SubSeq(s, 1, Len(s) - 1))
         IN IF s[Len(s)] \in Range(d) THEN d ELSE Append(d, s[Len(s)])

\* the orders a set can be listed in
RECURSIVE Orderings(_)
Orderings(S) ==
    IF S = {} THEN {<<>>}
    ELSE UNION {{<<x>> \o rest : rest \in Orderings(S \ {x})} : x \in S}

\* ------------------------------------------------------------ Python values
PyNone == [t |-> "none", v |-> <<>>]
PyInt(n) == [t |-> "int", v |-> <<n>>]
PyStr(s) == [t |-> "str", v |-> s]
PyList(s) == [t |-> "list", v |-> s]

\* a dict with the keys the program reads: "seen_comment_ids" and any other
\* key ("note") a state file may carry
EmptySeenDict == [keys |-> {"seen_comment_ids"}, seen |-> PyList(<<>>)]

DictGetSeen(d) == IF "seen_comment_ids" \in d.keys THEN d.seen ELSE PyNone

\* state.update(loaded)
DictUpdate(d, loaded) ==
    [keys |-> d.keys \cup loaded.keys,
     seen |-> IF "seen_comment_ids" \in loaded.keys THEN loaded.seen ELSE d.seen]

\* --------------------------------------------------------------- append_seen
\* the slip `del seen[limit:]`: keeps the first `limit` entries
DelFront_keepsOldest(seen, limit) == FirstN(seen, limit)

\* del seen[:-limit]: keeps the last `limit` entries
DelFront(seen, limit) == LastN(seen, limit)

\* the slip of appending without the `if cid in seen: return` test
SeenAppended_noMembershipTest(seen, cid, limit) ==
    IF cid = <<>> THEN seen
    ELSE LET app == Append(seen, cid)
         IN IF limit > 0 /\ Len(app) > limit THEN DelFront(app, limit) ELSE app

\* append_seen on the list itself
SeenAppended(seen, cid, limit) ==
    IF cid = <<>> THEN seen
    ELSE IF cid \in Range(seen) THEN seen
    ELSE LET app == Append(seen, cid)
         IN IF limit > 0 /\ Len(app) > limit THEN DelFront(app, limit) ELSE app

\* append_seen(state, cid) with SEEN_LIMIT = limit; state["seen_comment_ids"]
\* is a list whenever the program calls it (load_state sees to that)
append_seen(st, cid, limit) ==
    IF cid = <<>> THEN st
    ELSE LET seen == IF "seen_comment_ids" \in st.keys THEN st.seen.v ELSE <<>>
         IN [keys |-> st.keys \cup {"seen_comment_ids"},
             seen |-> PyList(SeenAppended(seen, cid, limit))]

\* ---------------------------------------------------------- comment_sort_key
IsDigit(c) == c >= 48 /\ c <= 57

\* int(s) of a run of ASCII digits
RECURSIVE ParseInt(_)
ParseInt(s) ==
    IF s = <<>> THEN 0
    ELSE ParseInt(SubSeq(s, 1, Len(s) - 1)) * 10 + (s[Len(s)] - 48)

\* re.findall(r"\d+", cid): whether there is a run of digits
HasDigits(cid) == \E i \in 1..Len(cid) : IsDigit(cid[i])

\* re.findall(r"\d+", cid)[-1]: the last maximal run of digits
LastDigitRun(cid) ==
    LET last == Max({i \in 1..Len(cid) : IsDigit(cid[i])})
        first == Min({j \in 1..last : \A k \in j..last : IsDigit(cid[k])})
    IN SubSeq(cid, first, last)

\* int(x) inside try/except (TypeError, ValueError), for x None, an int or a
\* str: None on failure
IntOrNone(raw) ==
    CASE raw.t = "int" -> raw
      [] raw.t = "str" /\ raw.v # <<>> /\ (\A i \in 1..Len(raw.v) : IsDigit(raw.v[i])) ->
            PyInt(ParseInt(raw.v))
      [] OTHER -> PyNone

IntKey(n) == [t |-> "int", n |-> n, s |-> <<>>]
StrKey(s) == [t |-> "str", n |-> 0, s |-> s]

\* the slip of keying on the id's digits before created_ts
comment_sort_key_idFirst(comment) ==
    LET created_ts == IntOrNone(comment.created_ts)
    IN IF HasDigits(comment.id) THEN IntKey(ParseInt(LastDigitRun(comment.id)))
       ELSE IF created_ts.t = "int" THEN IntKey(created_ts.v[1])
       ELSE StrKey(comment.id)

\* comment_sort_key(comment): int(created_ts) when that works, else the last
\* run of digits of the id as an int, else the id itself (a str)
comment_sort_key(comment) ==
    LET created_ts == IntOrNone(comment.created_ts)
    IN IF created_ts.t = "int" THEN IntKey(created_ts.v[1])
       ELSE IF HasDigits(comment.id) THEN IntKey(ParseInt(LastDigitRun(comment.id)))
       ELSE StrKey(comment.id)

\* a < b on str: by code point, a proper prefix first
RECURSIVE StrLess(_, _)
StrLess(a, b) ==
    IF b = <<>> THEN FALSE
    ELSE IF a = <<>> THEN TRUE
    ELSE IF a[1] # b[1] THEN a[1] < b[1]
    ELSE StrLess(Tail(a), Tail(b))

\* k1 < k2 for keys of one type
KeyLess(k1, k2) == IF k1.t = "int" THEN k1.n < k2.n ELSE StrLess(k1.s, k2.s)

\* list.sort compares keys with <: int with str raises TypeError, and a sort
\* of two or more keys of both types compares some such pair
SortRaises(list) ==
    \E i, j \in 1..Len(list) : comment_sort_key(list[i]).t # comment_sort_key(list[j]).t

\* x put into the sorted list after every entry whose key is not greater
RECURSIVE InsertByKey(_, _)
InsertByKey(sorted, x) ==
    IF sorted = <<>> THEN <<x>>
    ELSE IF KeyLess(comment_sort_key(x), comment_sort_key(sorted[Len(sorted)]))
         THEN Append(InsertByKey(SubSeq(sorted, 1, Len(sorted) - 1), x), sorted[Len(sorted)])
         ELSE Append(sorted, x)

RECURSIVE StableSort(_)
StableSort(list) ==
    IF list = <<>> THEN <<>>
    ELSE InsertByKey(StableSort(SubSeq(list, 1, Len(list) - 1)), list[Len(list)])

\* sorted(list, key=comment_sort_key) and list.sort(key=comment_sort_key):
\* [raised, v]; Python's sort is stable
SortComments(list) ==
    IF SortRaises(list) THEN [raised |-> TRUE, v |-> <<>>]
    ELSE [raised |-> FALSE, v |-> StableSort(list)]

\* ---------------------------------------------------------- extract_comments
\* A record of a markup pass: id, author, text, timestamp are str, images a
\* list of URLs (a URL is a number here); it has no created_ts key, which
\* comment.get("created_ts") reads as None.
MarkupRecord(id, author, text, timestamp, images) ==
    [id |-> id, author |-> author, text |-> text, timestamp |-> timestamp,
     images |-> images, created_ts |-> PyNone]

\* comment_map.get(cid) as an index into the list comments, cs (0: no entry).  The map is
\* built from the DOM records, a later record replacing an earlier one with
\* the same id, and then gets each appended fallback record.
MapIndex(cs, domLen, cid) ==
    LET dom == {i \in 1..domLen : cs[i].id = cid}
        appended == {i \in (domLen + 1)..Len(cs) : cs[i].id = cid}
    IN IF dom # {} THEN Max(dom)
       ELSE IF appended # {} THEN Min(appended)
       ELSE 0

\* the body of `if existing:`: the fields of existing after the merge of fb
MergedInto(existing, fb) ==
    [existing EXCEPT
        !.author = IF existing.author = <<>> /\ fb.author # <<>> THEN fb.author ELSE @,
        !.text = IF existing.text = <<>> /\ fb.text # <<>> THEN fb.text ELSE @,
        !.timestamp = IF existing.timestamp = <<>> /\ fb.timestamp # <<>>
                      THEN fb.timestamp ELSE @,
        !.images = IF fb.images # <<>> THEN Dedup(@ \o fb.images) ELSE @]

\* the loop `for fb in fallback_comments`
RECURSIVE MergeFallback(_, _, _)
MergeFallback(cs, domLen, fallback) ==
    IF fallback = <<>> THEN cs
    ELSE LET fb == Head(fallback)
             i == MapIndex(cs, domLen, fb.id)
         IN MergeFallback(
                IF i # 0 THEN [cs EXCEPT ![i] = MergedInto(cs[i], fb)]
                ELSE Append(cs, fb),
                domLen, Tail(fallback))

\* extract_comments, given what the two passes returned: [raised, v]
extract_comments(dom, fallback) == SortComments(MergeFallback(dom, Len(dom), fallback))

\* what the DOM pass returns for the documents considered: ids "1" and "2",
\* author "" or "a", text and timestamp both empty or "t" and "d", images
\* deduplicated
DomRecords ==
    {MarkupRecord(id, author, tt[1], tt[2], images) :
        id \in {<<49>>, <<50>>}, author \in {<<>>, <<97>>},
        tt \in {<< <<>>, <<>> >>, << <<116>>, <<100>> >>},
        images \in {<<>>, <<1>>}}

\* what the embedded-state pass returns: ids "1" and "x", author "" or "b",
\* text "" or "u", timestamp "" or "s"
FallbackRecords ==
    {MarkupRecord(id, author, text, timestamp, images) :
        id \in {<<49>>, <<120>>}, author \in {<<>>, <<98>>},
        text \in {<<>>, <<117>>}, timestamp \in {<<>>, <<115>>},
        images \in {<<>>, <<2, 1>>}}

\* lists of at most two records
ListsOf(S) == {<<>>} \cup {<<a>> : a \in S} \cup {<<a, b>> : a \in S, b \in S}

NoOut == [raised |-> FALSE, v |-> <<>>]

MergeIdle ==
    /\ mDom = <<>>
    /\ mFallback = <<>>
    /\ mPc = "before"
    /\ mOut = NoOut

MergeInit ==
    /\ mDom \in ListsOf(DomRecords)
    /\ mFallback \in {<<>>} \cup {<<a>> : a \in FallbackRecords}
    /\ mPc = "before"
    /\ mOut = NoOut

\* the call extract_comments(html_text)
ExtractCall ==
    /\ mPc = "before"
    /\ mOut' = extract_comments(mDom, mFallback)
    /\ mPc' = "extracted"
    /\ UNCHANGED <<mDom, mFallback>>

\* ------------------------------------------------------ fetch_recent_comments
\* A raw item of the GraphQL response: commentId (str), createdAtTs (None, an
\* int or a str), and the image URLs parse_comment_content finds in content.
RawItem(commentId, createdAtTs, images) ==
    [commentId |-> commentId, createdAtTs |-> createdAtTs, images |-> images]

normalize_comment_item(item) ==
    [id |-> item.commentId, created_ts |-> IntOrNone(item.createdAtTs),
     images |-> Dedup(item.images)]

\* normalized.values() after `normalized[comment["id"]] = comment` for every
\* item with a non-empty id: one entry per id, at the place of the id's first
\* item and with the value of its last
NormalizedValues(items) ==
    LET all == [i \in 1..Len(items) |-> normalize_comment_item(items[i])]
        firstOf(i) == \A j \in 1..(i - 1) : all[j].id # all[i].id
        lastFor(i) == all[Max({j \in 1..Len(all) : all[j].id = all[i].id})]
        F[i \in 0..Len(all)] ==
            IF i = 0 THEN <<>>
            ELSE IF all[i].id # <<>> /\ firstOf(i) THEN Append(F[i - 1], lastFor(i))
            ELSE F[i - 1]
    IN F[Len(all)]

\* What graphql_query meets: "transport" (the POST fails) and "http_status"
\* (raise_for_status on a non-success status), both requests.RequestException;
\* "not_json" and "errors" (RuntimeError); "items" (data.comments.items is the
\* list items); and JSON bodies without that structure: "no_data" (no "data"
\* or null), "no_comments" (data without "comments"), "no_items" (comments
\* without "items").
Response(kind, items) == [kind |-> kind, items |-> items]

\* items = ((data.get("comments") or {}).get("items")) or [], data being
\* graphql_query's `data.get("data") or {}`: a missing level reads as empty
ItemsOf(resp) == IF resp.kind = "items" THEN resp.items ELSE <<>>

\* fetch_recent_comments(): [exc, v]; exc is "none" or the exception raised
fetch_recent_comments(resp) ==
    CASE resp.kind \in {"transport", "http_status"} ->
            [exc |-> "RequestException", v |-> <<>>]
      [] resp.kind \in {"not_json", "errors"} -> [exc |-> "RuntimeError", v |-> <<>>]
      [] OTHER ->
            LET sorted == SortComments(NormalizedValues(ItemsOf(resp)))
            IN IF sorted.raised THEN [exc |-> "TypeError", v |-> <<>>]
               ELSE [exc |-> "none", v |-> sorted.v]

\* the items of the thread: "20" created at 100 with one image, "3" created at
\* "200", "a150" with an unparseable timestamp (key 150 from its id), and an
\* item without an id
Item20 == RawItem(<<50, 48>>, PyInt(100), <<1>>)
Item3 == RawItem(<<51>>, PyStr(<<50, 48, 48>>), <<>>)
ItemA150 == RawItem(<<97, 49, 53, 48>>, PyStr(<<63>>), <<>>)
ItemNoId == RawItem(<<>>, PyInt(300), <<>>)

ThreadItems == {Item20, Item3, ItemA150}

CommentIds == {r.commentId : r \in ThreadItems}

\* the item lists a response can hold: at most PageLimit of the thread's
\* items, whichever the site gives, in any order, with or without an item
\* lacking an id
Pages ==
    LET base == UNION {Orderings(S) : S \in {T \in SUBSET ThreadItems : Cardinality(T) <= PageLimit}}
    IN base \cup {<<ItemNoId>> \o l : l \in base}

FailedResponses ==
    {Response(k, <<>>) : k \in {"transport", "http_status", "not_json", "errors"}}

MalformedResponses ==
    {Response(k, <<>>) : k \in {"no_data", "no_comments", "no_items"}}

Responses ==
    FailedResponses \cup MalformedResponses \cup {Response("items", l) : l \in Pages}

\* what fetch_recent_comments gives for these responses
FetchResults == {fetch_recent_comments(resp) : resp \in Responses}

\* --------------------------------------- fetch_recent_comments, call by call
\* an item whose id has no digit and that has no createdAtTs
ItemX == RawItem(<<120>>, PyNone, <<>>)

\* the responses of a thread that also holds ItemX
FetchResponses ==
    LET base == UNION {Orderings(S) :
                    S \in {T \in SUBSET (ThreadItems \cup {ItemX}) : Cardinality(T) <= PageLimit}}
    IN FailedResponses \cup MalformedResponses
       \cup {Response("items", l) : l \in base}
       \cup {Response("items", <<ItemNoId>> \o l) : l \in base}

NoFetched == [exc |-> "none", v |-> <<>>]

FetchIdle ==
    /\ fResp = Response("items", <<>>)
    /\ fPc = "before"
    /\ fOut = NoFetched

FetchInit ==
    /\ fResp \in FetchResponses
    /\ fPc = "before"
    /\ fOut = NoFetched

\* the call fetch_recent_comments(limit=GRAPHQL_PAGE_LIMIT)
FetchCall ==
    /\ fPc = "before"
    /\ fOut' = fetch_recent_comments(fResp)
    /\ fPc' = "fetched"
    /\ UNCHANGED fResp

\* -------------------------------------------------------------------- run_once
IdsOf(list) == {list[i].id : i \in 1..Len(list)}

\* the slip of keeping the comments whose id is in the seen set
SelectNew_keepsSeen(list, seen) == SelectSeq(list, LAMBDA c : c.id \in Range(seen))

\* new_comments = [c for c in comments if c["id"] not in seen_set]
SelectNew(list, seen) == SelectSeq(list, LAMBDA c : c.id \notin Range(seen))

\* send_comment_notification(comment): send_telegram_message, then one
\* send_telegram_photo per image.  A send is accepted ("ok"), refused by
\* Telegram ("fail": r.ok is false) or raises requests.RequestException
\* ("raise": no connection, timeout), which ends the call; img is "none" when
\* no photo was sent.
SendOutcomes(comment) ==
    {[msg |-> "raise", img |-> "none"]}
    \cup {[msg |-> m, img |-> i] :
            m \in {"ok", "fail"},
            i \in IF comment.images = <<>> THEN {"none"} ELSE {"ok", "fail", "raise"}}

SendRaised(o) == o.msg = "raise" \/ o.img = "raise"

\* the record of one send_comment_notification call
Inc(n) == IF n >= 2 THEN 2 ELSE n + 1

Notified(cid, o) ==
    /\ attempted' = attempted \cup {cid}
    /\ delivered' = IF o.msg = "ok" THEN [delivered EXCEPT ![cid] = Inc(@)] ELSE delivered

\* `for comment in comments: append_seen(state, comment["id"])`
RECURSIVE AppendAll(_, _, _)
AppendAll(st, list, lim) ==
    IF list = <<>> THEN st
    ELSE AppendAll(append_seen(st, Head(list).id, lim), Tail(list), lim)

\* ------------------------------------------- the sort, list by list
Comment(id, created_ts) == [id |-> id, created_ts |-> created_ts, images |-> <<>>]

\* "20" created at 100, "3" created at 200, "9" created at 100, "a100" without
\* created_ts (key 100 from its id), "x" and "y" without created_ts or digits
Sort20 == Comment(<<50, 48>>, PyInt(100))
Sort3 == Comment(<<51>>, PyInt(200))
Sort9 == Comment(<<57>>, PyInt(100))
SortA100 == Comment(<<97, 49, 48, 48>>, PyNone)
SortX == Comment(<<120>>, PyNone)
SortY == Comment(<<121>>, PyNone)

SortComments_universe == {Sort20, Sort3, Sort9, SortA100, SortX, SortY}

\* the lists sorted: up to three comments with distinct ids, in any order
SortInputs ==
    UNION {Orderings(S) : S \in {T \in SUBSET SortComments_universe : Cardinality(T) <= 3}}

SortIdle ==
    /\ sIn = <<>>
    /\ sPc = "before"
    /\ sOut = NoOut

SortInit ==
    /\ sIn \in SortInputs
    /\ sPc = "before"
    /\ sOut = NoOut

\* sorted(sIn, key=comment_sort_key)
SortCall ==
    /\ sPc = "before"
    /\ sOut' = SortComments(sIn)
    /\ sPc' = "sorted"
    /\ UNCHANGED sIn

\* ------------------------------------------------- append_seen, call by call
\* the ids append_seen is called with: "1", "2", "3" and the empty id
AppendIds == {<<49>>, <<50>>, <<51>>, <<>>}

AppendIdle ==
    /\ aState = EmptySeenDict
    /\ aLimit = 1
    /\ aCalls = <<>>
    /\ aEffective = <<>>

\* a fresh state (load_state with no file) and a positive SEEN_LIMIT
AppendInit ==
    /\ aState = EmptySeenDict
    /\ aLimit \in 1..MaxSeenLimit
    /\ aCalls = <<>>
    /\ aEffective = <<>>

\* one call append_seen(state, cid)
AppendCall(cid) ==
    /\ Len(aCalls) < MaxCalls
    /\ aState' = append_seen(aState, cid, aLimit)
    /\ aCalls' = Append(aCalls, cid)
    /\ aEffective' = IF cid # <<>> /\ cid \notin Range(DictGetSeen(aState).v)
                     THEN Append(aEffective, cid) ELSE aEffective
    /\ UNCHANGED aLimit

AppendNext == \E cid \in AppendIds : AppendCall(cid)

\* ---------------------------------------------------------------- load_state
\* What is at STATE_PATH.  kind: "missing" (no such path), "unreadable" (the
\* path exists and open() fails), "invalid" (text that is not JSON),
\* "truncated" (a proper prefix of the dump of doc: not JSON either),
\* "value" (JSON that is not an object: val), "dict" (the JSON object doc).
NoDict == [keys |-> {}, seen |-> PyNone]

FileMissing == [kind |-> "missing", val |-> PyNone, doc |-> NoDict]
FileUnreadable == [kind |-> "unreadable", val |-> PyNone, doc |-> NoDict]
FileInvalid == [kind |-> "invalid", val |-> PyNone, doc |-> NoDict]
FileTruncated(d) == [kind |-> "truncated", val |-> PyNone, doc |-> d]
FileValue(x) == [kind |-> "value", val |-> x, doc |-> NoDict]
FileDict(d) == [kind |-> "dict", val |-> PyNone, doc |-> d]

\* open(STATE_PATH) and json.load(f): the exception raised ("none" when none)
\* and the value loaded
ReadJson(file) ==
    CASE file.kind = "unreadable" -> [exc |-> "OSError", isDict |-> FALSE, doc |-> NoDict]
      [] file.kind \in {"invalid", "truncated"} ->
            [exc |-> "JSONDecodeError", isDict |-> FALSE, doc |-> NoDict]
      [] file.kind = "value" -> [exc |-> "none", isDict |-> FALSE, doc |-> NoDict]
      [] OTHER -> [exc |-> "none", isDict |-> TRUE, doc |-> file.doc]

\* `except Exception`: OSError and JSONDecodeError are both subclasses
ExceptException(exc) == exc \in {"OSError", "JSONDecodeError"}

\* the slip of leaving out the final `isinstance(seen, list)` test
load_state_noListTest(file) ==
    LET default == EmptySeenDict
        r == ReadJson(file)
        exc == IF file.kind = "missing" THEN "none" ELSE r.exc
        merged == IF file.kind # "missing" /\ r.exc = "none" /\ r.isDict
                 THEN DictUpdate(default, r.doc) ELSE default
    IN IF exc # "none" /\ ~ExceptException(exc)
       THEN [raised |-> TRUE, state |-> default]
       ELSE [raised |-> FALSE, state |-> merged]

\* load_state(): [raised, state]
load_state(file) ==
    LET default == EmptySeenDict
        r == ReadJson(file)
        exc == IF file.kind = "missing" THEN "none" ELSE r.exc
        merged == IF file.kind # "missing" /\ r.exc = "none" /\ r.isDict
                 THEN DictUpdate(default, r.doc) ELSE default
    IN IF exc # "none" /\ ~ExceptException(exc)
       THEN [raised |-> TRUE, state |-> default]
       ELSE [raised |-> FALSE,
             state |-> IF DictGetSeen(merged).t # "list"
                       THEN [merged EXCEPT !.seen = PyList(<<>>)] ELSE merged]

\* the ids a state file lists
FileIds == {<<49>>, <<50>>, <<51>>}

\* lists of ids of length at most 2, duplicates included
FileIdLists == {<<>>} \cup {<<a>> : a \in FileIds} \cup {<<a, b>> : a \in FileIds, b \in FileIds}

\* the values a JSON document holds under "seen_comment_ids": null, 5, "1",
\* an object, a list of strings
PyDictValue == [t |-> "dict", v |-> <<>>]
SeenValues == {PyNone, PyInt(5), PyStr(<<49>>), PyDictValue} \cup {PyList(l) : l \in FileIdLists}

\* the JSON objects a state file holds
FileDicts ==
    {[keys |-> k, seen |-> PyNone] : k \in SUBSET {"note"}}
    \cup {[keys |-> k \cup {"seen_comment_ids"}, seen |-> x] : k \in SUBSET {"note"}, x \in SeenValues}

FileInputs ==
    {FileMissing, FileUnreadable, FileInvalid}
    \cup {FileTruncated(d) : d \in FileDicts}
    \cup {FileValue(x) : x \in {PyNone, PyInt(5), PyStr(<<49>>), PyList(<<>>), PyList(<< <<49>> >>)}}
    \cup {FileDict(d) : d \in FileDicts}

NoResult == [raised |-> FALSE, state |-> NoDict]

LoadIdle ==
    /\ lFile = FileMissing
    /\ lPc = "before"
    /\ lResult = NoResult

LoadInit ==
    /\ lFile \in FileInputs
    /\ lPc = "before"
    /\ lResult = NoResult

\* the call load_state()
LoadCall ==
    /\ lPc = "before"
    /\ lResult' = load_state(lFile)
    /\ lPc' = "loaded"
    /\ UNCHANGED lFile

\* ------------------------------------------------------------------ save_state
\* the slip of writing to STATE_PATH itself
SaveStateTmp_isStatePath == "state"

\* tmp = STATE_PATH + ".tmp"
SaveStateTmp == "tmp"

\* os.replace(tmp, STATE_PATH): one atomic rename
Replaced(files, tmp) ==
    IF tmp = "state" THEN files
    ELSE [files EXCEPT !["state"] = files[tmp], ![tmp] = FileMissing]

\* --------------------------------------------------------------------- main
\* the POLL_SECONDS an installation is configured with: the default, and one
\* whose double is above the cap of the handlers' sleep
PollSecondsValues == {60, 100}

\* the slip of sleeping POLL_SECONDS * 2 whatever it comes to
BackoffSeconds_uncapped(poll) == poll * 2

\* min(180, POLL_SECONDS * 2) of main's two handlers
BackoffSeconds(poll) == Min({180, poll * 2})

NoPreloaded == [none |-> TRUE, v |-> <<>>]
PreloadedList(l) == [none |-> FALSE, v |-> l]

SysIdle ==
    /\ fs = [f \in {"state", "tmp"} |-> FileMissing]
    /\ SEEN_LIMIT = 1
    /\ POLL_SECONDS = 60
    /\ slept = 0
    /\ pc = "down"
    /\ state = EmptySeenDict
    /\ preloaded = NoPreloaded
    /\ comments = <<>>
    /\ batch = <<>>
    /\ idx = 1
    /\ saveRet = "none"
    /\ result = "none"
    /\ delivered = [c \in CommentIds |-> 0]
    /\ attempted = {}
    /\ iterLog = <<>>

\* a first installation: no state file, no process
SysInit ==
    /\ fs = [f \in {"state", "tmp"} |-> FileMissing]
    /\ SEEN_LIMIT \in 1..MaxSeenLimit
    /\ POLL_SECONDS \in PollSecondsValues
    /\ slept = 0
    /\ pc = "down"
    /\ state = EmptySeenDict
    /\ preloaded = NoPreloaded
    /\ comments = <<>>
    /\ batch = <<>>
    /\ idx = 1
    /\ saveRet = "none"
    /\ result = "none"
    /\ delivered = [c \in CommentIds |-> 0]
    /\ attempted = {}
    /\ iterLog = <<>>

\* run_once's locals, gone when it is left
NoLocals ==
    /\ comments' = <<>>
    /\ batch' = <<>>
    /\ idx' = 1
    /\ iterLog' = <<>>
    /\ result' = "none"

\* what a dead process leaves: nothing in memory
ProcessGone ==
    /\ pc' = "down"
    /\ state' = EmptySeenDict
    /\ preloaded' = NoPreloaded
    /\ saveRet' = "none"
    /\ slept' = 0
    /\ NoLocals

\* the process is started: main calls load_state()
ProcessStart ==
    /\ pc = "down"
    /\ state' = load_state(fs["state"]).state
    /\ pc' = "startup_message"
    /\ UNCHANGED <<fs, SEEN_LIMIT, POLL_SECONDS, preloaded, comments, batch, idx, saveRet,
                   result, slept, histVars>>

\* the process is killed or the machine goes down, at any point
Crash ==
    /\ pc # "down"
    /\ ProcessGone
    /\ UNCHANGED <<fs, SEEN_LIMIT, POLL_SECONDS, delivered, attempted>>

\* send_startup_notification: send_telegram_message(message); an exception
\* of the POST is caught nowhere and ends the process
StartupMessage(o) ==
    /\ pc = "startup_message"
    /\ IF o = "raise"
       THEN ProcessGone
       ELSE /\ pc' = "startup_fetch"
            /\ UNCHANGED <<state, preloaded, comments, batch, idx, saveRet, result,
                           slept, iterLog>>
    /\ UNCHANGED <<fs, SEEN_LIMIT, POLL_SECONDS, delivered, attempted>>

\* send_startup_notification: fetch_recent_comments inside try/except
\* Exception; a failed or empty fetch returns []
StartupFetch(got) ==
    /\ pc = "startup_fetch"
    /\ IF got.exc # "none" \/ got.v = <<>>
       THEN /\ preloaded' = PreloadedList(<<>>)
            /\ pc' = "loop"
            /\ UNCHANGED comments
       ELSE /\ comments' = got.v
            /\ pc' = "startup_notify"
            /\ UNCHANGED preloaded
    /\ UNCHANGED <<fs, SEEN_LIMIT, POLL_SECONDS, state, batch, idx, saveRet, result, slept,
                   histVars>>

\* send_startup_notification: send_comment_notification(comments[-1]), then
\* append_seen for every comment fetched, then save_state
StartupNotify(o) ==
    /\ pc = "startup_notify"
    /\ Notified(comments[Len(comments)].id, o)
    /\ IF SendRaised(o)
       THEN ProcessGone
       ELSE /\ state' = AppendAll(state, comments, SEEN_LIMIT)
            /\ pc' = "save_open"
            /\ saveRet' = "startup"
            /\ UNCHANGED <<preloaded, comments, batch, idx, result, slept, iterLog>>
    /\ UNCHANGED <<fs, SEEN_LIMIT, POLL_SECONDS>>

\* save_state: open(tmp, "w") creates or empties the file
SaveOpen ==
    /\ pc = "save_open"
    /\ fs' = [fs EXCEPT ![SaveStateTmp] = FileTruncated(NoDict)]
    /\ pc' = "save_dump"
    /\ UNCHANGED <<SEEN_LIMIT, POLL_SECONDS, state, preloaded, comments, batch, idx, saveRet,
                   result, slept, histVars>>

\* save_state: json.dump writes the text and the file is closed
SaveDump ==
    /\ pc = "save_dump"
    /\ fs' = [fs EXCEPT ![SaveStateTmp] = FileDict(state)]
    /\ pc' = "save_replace"
    /\ UNCHANGED <<SEEN_LIMIT, POLL_SECONDS, state, preloaded, comments, batch, idx, saveRet,
                   result, slept, histVars>>

\* save_state: the write fails (OSError: no space left); in
\* send_startup_notification nothing catches it, in run_once main does
SaveDumpFails ==
    /\ pc = "save_dump"
    /\ IF saveRet = "startup"
       THEN ProcessGone /\ UNCHANGED <<delivered, attempted>>
       ELSE /\ pc' = "sleep_backoff"
            /\ result' = "save_raised"
            /\ slept' = BackoffSeconds(POLL_SECONDS)
            /\ saveRet' = "none"
            /\ UNCHANGED <<state, preloaded, comments, batch, idx, histVars>>
    /\ UNCHANGED <<fs, SEEN_LIMIT, POLL_SECONDS>>

\* save_state: os.replace(tmp, STATE_PATH), and the return to the caller:
\* send_startup_notification returns comments to main, run_once returns and
\* main sets preloaded = None
SaveReplace ==
    /\ pc = "save_replace"
    /\ fs' = Replaced(fs, SaveStateTmp)
    /\ IF saveRet = "startup"
       THEN /\ preloaded' = PreloadedList(comments)
            /\ pc' = "loop"
            /\ comments' = <<>>
            /\ UNCHANGED <<result, slept>>
       ELSE /\ preloaded' = NoPreloaded
            /\ pc' = "sleep"
            /\ result' = "returned"
            /\ slept' = POLL_SECONDS
            /\ UNCHANGED comments
    /\ saveRet' = "none"
    /\ UNCHANGED <<SEEN_LIMIT, POLL_SECONDS, state, batch, idx, histVars>>

\* run_once up to the loop: the comments (preloaded or fetched), the new
\* ones, sorted.  An exception goes to main's handlers, which leave preloaded
\* as it is.
RunOnceBegin(fetched) ==
    /\ pc = "loop"
    /\ LET got == IF preloaded.none THEN fetched ELSE [exc |-> "none", v |-> preloaded.v]
           new == SelectNew(got.v, DictGetSeen(state).v)
           sorted == SortComments(new)
       IN IF got.exc # "none"
          THEN /\ pc' = "sleep_backoff"
               /\ result' = "fetch_raised"
               /\ slept' = BackoffSeconds(POLL_SECONDS)
               /\ UNCHANGED <<preloaded, comments, batch>>
          ELSE /\ comments' = got.v
               /\ IF got.v = <<>> \/ new = <<>>
                  THEN /\ pc' = "sleep"
                       /\ result' = "returned"
                       /\ slept' = POLL_SECONDS
                       /\ preloaded' = NoPreloaded
                       /\ UNCHANGED batch
                  ELSE IF sorted.raised
                  THEN /\ pc' = "sleep_backoff"
                       /\ result' = "sort_raised"
                       /\ slept' = BackoffSeconds(POLL_SECONDS)
                       /\ UNCHANGED <<preloaded, batch>>
                  ELSE /\ pc' = "notify"
                       /\ batch' = sorted.v
                       /\ UNCHANGED <<preloaded, result, slept>>
    /\ UNCHANGED <<fs, SEEN_LIMIT, POLL_SECONDS, state, idx, saveRet, histVars>>

\* run_once, one turn of `for comment in new_comments`:
\* send_comment_notification, then append_seen; after the last comment
\* save_state begins.  An exception of a send leaves the loop for main's handler.
NotifyOne(o) ==
    /\ pc = "notify"
    /\ idx <= Len(batch)
    /\ Notified(batch[idx].id, o)
    /\ iterLog' = Append(iterLog, batch[idx].id)
    /\ IF SendRaised(o)
       THEN /\ pc' = "sleep_backoff"
            /\ result' = "send_raised"
            /\ slept' = BackoffSeconds(POLL_SECONDS)
            /\ UNCHANGED <<state, idx, saveRet>>
       ELSE /\ state' = append_seen(state, batch[idx].id, SEEN_LIMIT)
            /\ idx' = idx + 1
            /\ pc' = IF idx = Len(batch) THEN "save_open" ELSE "notify"
            /\ saveRet' = IF idx = Len(batch) THEN "run_once" ELSE saveRet
            /\ UNCHANGED <<result, slept>>
    /\ UNCHANGED <<fs, SEEN_LIMIT, POLL_SECONDS, preloaded, comments, batch>>

\* main: time.sleep(POLL_SECONDS) after a run_once that returned,
\* time.sleep(min(180, POLL_SECONDS * 2)) in a handler; then the next turn
Sleep ==
    /\ pc \in {"sleep", "sleep_backoff"}
    /\ pc' = "loop"
    /\ slept' = 0
    /\ NoLocals
    /\ UNCHANGED <<fs, SEEN_LIMIT, POLL_SECONDS, state, preloaded, saveRet, delivered, attempted>>

\* any state dict a run can hold (a loaded file's list can repeat ids and can
\* be longer than this run's SEEN_LIMIT; a dict built elsewhere can lack the
\* key) and any SEEN_LIMIT, 0 included (no truncation)
AppendAnyInit ==
    /\ aState \in {NoDict} \cup {[keys |-> {"seen_comment_ids"}, seen |-> PyList(l)] : l \in FileIdLists}
    /\ aLimit \in 0..MaxSeenLimit
    /\ aCalls = <<>>
    /\ aEffective = <<>>

vars == <<appendVars, loadVars, mergeVars, sortVars, fetchVars, sysVars>>

InitSort == SortInit /\ AppendIdle /\ LoadIdle /\ MergeIdle /\ SysIdle /\ FetchIdle

NextSort == SortCall /\ UNCHANGED <<appendVars, loadVars, mergeVars, fetchVars, sysVars>>

\* the sort on every short list
SpecSort == InitSort /\ [][NextSort]_vars

InitFetch == FetchInit /\ AppendIdle /\ LoadIdle /\ MergeIdle /\ SortIdle /\ SysIdle

NextFetch == FetchCall /\ UNCHANGED <<appendVars, loadVars, mergeVars, sortVars, sysVars>>

\* fetch_recent_comments on every response
SpecFetch == InitFetch /\ [][NextFetch]_vars

\* the monitor: starts, polls, crashes and restarts
Init == SysInit /\ AppendIdle /\ LoadIdle /\ MergeIdle /\ SortIdle /\ FetchIdle

otherVars == <<appendVars, loadVars, mergeVars, sortVars, fetchVars>>

\* the steps of the process itself
NextUnattended ==
    \/ ProcessStart /\ UNCHANGED otherVars
    \/ (\E o \in {"ok", "fail", "raise"} : StartupMessage(o)) /\ UNCHANGED otherVars
    \/ (\E got \in FetchResults : StartupFetch(got)) /\ UNCHANGED otherVars
    \/ /\ pc = "startup_notify"
       /\ \E o \in SendOutcomes(comments[Len(comments)]) : StartupNotify(o)
       /\ UNCHANGED otherVars
    \/ SaveOpen /\ UNCHANGED otherVars
    \/ SaveDump /\ UNCHANGED otherVars
    \/ SaveDumpFails /\ UNCHANGED otherVars
    \/ SaveReplace /\ UNCHANGED otherVars
    \/ (\E got \in FetchResults : RunOnceBegin(got)) /\ UNCHANGED otherVars
    \/ /\ pc = "notify"
       /\ \E o \in SendOutcomes(batch[idx]) : NotifyOne(o)
       /\ UNCHANGED otherVars
    \/ Sleep /\ UNCHANGED otherVars

\* the process, and its being killed from outside
Next ==
    \/ NextUnattended
    \/ Crash /\ UNCHANGED otherVars

Spec == Init /\ [][Next]_vars

\* the monitor left alone: nothing kills the process, and a time.sleep returns
SpecUnattended ==
    Init /\ [][NextUnattended]_vars /\ WF_vars(Sleep /\ UNCHANGED otherVars)

InitAppend == AppendInit /\ LoadIdle /\ MergeIdle /\ SysIdle /\ SortIdle /\ FetchIdle

NextAppend == AppendNext /\ UNCHANGED <<loadVars, mergeVars, sortVars, fetchVars, sysVars>>

InitLoad == LoadInit /\ AppendIdle /\ MergeIdle /\ SysIdle /\ SortIdle /\ FetchIdle

NextLoad == LoadCall /\ UNCHANGED <<appendVars, mergeVars, sortVars, fetchVars, sysVars>>

InitMerge == MergeInit /\ AppendIdle /\ LoadIdle /\ SysIdle /\ SortIdle /\ FetchIdle

NextMerge == ExtractCall /\ UNCHANGED <<appendVars, loadVars, sortVars, fetchVars, sysVars>>

\* extract_comments on what the two passes return
SpecMerge == InitMerge /\ [][NextMerge]_vars

\* append_seen from any state
InitAppendAny == AppendAnyInit /\ LoadIdle /\ MergeIdle /\ SysIdle /\ SortIdle /\ FetchIdle

SpecAppendAny == InitAppendAny /\ [][NextAppend]_vars

\* append_seen from an empty list
SpecAppend == InitAppend /\ [][NextAppend]_vars

\* load_state on every kind of file
SpecLoad == InitLoad /\ [][NextLoad]_vars

\* ------------------------------------------------------------------- claims
aSeen == DictGetSeen(aState).v

Reverse(s) == [i \in 1..Len(s) |-> s[Len(s) + 1 - i]]

NonEmptyCalls == SelectSeq(aCalls, LAMBDA c : c # <<>>)

\* the distinct ids appended so far, in the order of their first append
DistinctAppended == Dedup(NonEmptyCalls)

\* C4 as claimed: after each call the list has at most aLimit entries and is
\* the last min(n, aLimit) distinct ids appended (n the number of distinct ids
\* appended so far), read either as the tail of the distinct ids in the order
\* of their first append or as the most recently appended distinct ids.
C4_LastDistinctAppended ==
    LET n == Len(DistinctAppended)
        k == Min({n, aLimit})
    IN /\ Len(aSeen) <= aLimit
       /\ \/ aSeen = LastN(DistinctAppended, k)
          \/ Range(aSeen) = Range(FirstN(Dedup(Reverse(NonEmptyCalls)), k))

\* C4 as amended: after each call the list has at most aLimit entries and is
\* the last min(m, aLimit) effective appends in insertion order, where an
\* append is effective when its id is non-empty and not in the list at the
\* time of the call (m the number of effective appends): only the front is
\* ever evicted, and an evicted id appended again is inserted again at the back.
C4_LastEffectiveAppends ==
    /\ Len(aSeen) <= aLimit
    /\ aSeen = LastN(aEffective, Min({Len(aEffective), aLimit}))

\* an id was evicted and appended again
C4_Witness ==
    /\ Len(aEffective) > aLimit
    /\ Cardinality(Range(aEffective)) < Len(aEffective)
    /\ aSeen # <<>>

\* C5: in every state and for every id, a second append_seen of the same id
\* leaves the state (contents, order, length) as the first left it, and
\* appending an id already in the list changes nothing.
C5_AppendIdempotent ==
    \A cid \in AppendIds :
        LET once == append_seen(aState, cid, aLimit)
        IN /\ append_seen(once, cid, aLimit) = once
           /\ cid \in Range(aSeen) => once = aState

\* the same id was appended twice in a row, the first call inserting it into
\* a full list
C5_Witness ==
    /\ Len(aCalls) >= 2
    /\ aCalls[Len(aCalls)] = aCalls[Len(aCalls) - 1]
    /\ aEffective # <<>>
    /\ aEffective[Len(aEffective)] = aCalls[Len(aCalls)]
    /\ aLimit > 0
    /\ Len(aSeen) >= aLimit
    /\ Len(aEffective) >= 2

\* the files C8 is about
Malformed(file) ==
    \/ file.kind \in {"missing", "unreadable", "invalid", "truncated", "value"}
    \/ /\ file.kind = "dict"
       /\ \/ "seen_comment_ids" \notin file.doc.keys
          \/ file.doc.seen.t # "list"

\* C8: load_state never raises, and gives an empty seen_comment_ids list for a
\* file that is missing, unreadable, not JSON, JSON but no object, or an
\* object whose seen_comment_ids is absent or no list.
C8_LoadNeverFatal ==
    lPc = "loaded" =>
        /\ ~lResult.raised
        /\ Malformed(lFile) => DictGetSeen(lResult.state) = PyList(<<>>)

\* load_state has read an object whose seen_comment_ids is a string
C8_Witness ==
    /\ lPc = "loaded"
    /\ lFile.kind = "dict"
    /\ "seen_comment_ids" \in lFile.doc.keys
    /\ lFile.doc.seen.t = "str"
    /\ "note" \in lResult.state.keys

\* the records of either pass with the id of r, DOM pass first
SourcesOf(r) == SelectSeq(mDom \o mFallback, LAMBDA x : x.id = r.id)

NoRepeat(list) == Cardinality(Range(list)) = Len(list)

\* C10: in every record extract_comments returns, each of author, text and
\* timestamp is non-empty whenever it is non-empty in a record of either pass
\* with that id, and no image list holds a URL twice.
C10_MergeKeepsFields ==
    (mPc = "extracted" /\ ~mOut.raised) =>
        \A i \in 1..Len(mOut.v) :
            LET r == mOut.v[i]
                src == SourcesOf(r)
            IN /\ (\E k \in 1..Len(src) : src[k].author # <<>>) => r.author # <<>>
               /\ (\E k \in 1..Len(src) : src[k].text # <<>>) => r.text # <<>>
               /\ (\E k \in 1..Len(src) : src[k].timestamp # <<>>) => r.timestamp # <<>>
               /\ NoRepeat(r.images)

seenNow == DictGetSeen(state).v

\* C1: no comment id has a notification delivered for it more than once,
\* whatever the starts, poll iterations and restarts (the state file is carried
\* over, SEEN_LIMIT is positive).
C1_NotifiedAtMostOnce == \A c \in CommentIds : delivered[c] <= 1

\* C2: an id is in seen_comment_ids only after a notification for that comment
\* has been attempted.
C2_SeenOnlyAfterAttempt == \A c \in Range(seenNow) : c \in attempted

\* the keys of the list never decrease
SortedByKey(list) ==
    \A i, j \in 1..Len(list) :
        i < j => ~KeyLess(comment_sort_key(list[j]), comment_sort_key(list[i]))

C6_FailedSendDoesNotBlock ==
    (pc \in {"sleep", "sleep_backoff"} /\ batch # <<>> /\ result \in {"returned", "send_raised"}) =>
        /\ Range(iterLog) = IdsOf(batch)
        /\ Len(batch) <= SEEN_LIMIT => IdsOf(batch) \subseteq Range(seenNow)
        /\ fs["state"] = FileDict(state)

\* C7: whatever step of save_state a crash hits, STATE_PATH holds a complete
\* state: the file changes only in the replace step, and then to the complete
\* dump of the state being saved; it is never a truncated dump; and the next
\* start loads exactly what it holds.
C7_StateFileAtomic ==
    /\ [](fs["state"].kind \in {"missing", "dict"})
    /\ [][fs'["state"] # fs["state"] =>
            (pc = "save_replace" /\ fs'["state"] = FileDict(state))]_vars
    /\ [][(pc = "down" /\ pc' # "down" /\ fs["state"].kind = "dict") =>
            state' = fs["state"].doc]_vars

\* a crash hit save_state between open and replace while an earlier state
\* was on disk, which the next start has loaded
C7_Witness ==
    /\ pc = "startup_message"
    /\ fs["tmp"].kind = "truncated"
    /\ fs["state"].kind = "dict"
    /\ seenNow # <<>>

\* the place of comment c in the list
PlaceIn(list, c) == CHOOSE i \in 1..Len(list) : list[i] = c

HasIntTs(c) == c.created_ts.t = "int"

\* A is placed before B in the list the sort gave
PlacedBefore(A, B) ==
    /\ A \in Range(sOut.v)
    /\ B \in Range(sOut.v)
    /\ PlaceIn(sOut.v, A) < PlaceIn(sOut.v, B)

\* C9: for every comment list, the sort places a comment whose integer
\* created_ts is less than another's before it, whatever their ids look like,
\* and comments with equal keys keep the order they came in.
C9_SortStableMonotonic ==
    sPc = "sorted" =>
        \A i, j \in 1..Len(sIn) :
            /\ (/\ HasIntTs(sIn[i])
                /\ HasIntTs(sIn[j])
                /\ sIn[i].created_ts.v[1] < sIn[j].created_ts.v[1]) =>
                    PlacedBefore(sIn[i], sIn[j])
            /\ (i < j /\ comment_sort_key(sIn[i]) = comment_sort_key(sIn[j])) =>
                    PlacedBefore(sIn[i], sIn[j])

\* the same of the sorts that complete: what C9 comes to on the lists whose
\* keys are all int or all str
SortOrderWhenCompleted ==
    (sPc = "sorted" /\ ~sOut.raised) =>
        /\ Range(sOut.v) = Range(sIn)
        /\ Len(sOut.v) = Len(sIn)
        /\ C9_SortStableMonotonic

\* C11: sorting a comment list by comment_sort_key never raises, whatever mix
\* of comments it holds (integer created_ts, key from the id's digits, key
\* the id string itself): the sort completes and gives the whole list back
\* in order.
C11_SortNeverRaises ==
    sPc = "sorted" =>
        /\ ~sOut.raised
        /\ Len(sOut.v) = Len(sIn)
        /\ SortedByKey(sOut.v)

\* main is in its `while True`
InLoop ==
    \/ pc \in {"loop", "notify", "sleep", "sleep_backoff"}
    \/ pc \in {"save_open", "save_dump", "save_replace"} /\ saveRet = "run_once"

RunOnceErrors == {"fetch_raised", "sort_raised", "send_raised", "save_raised"}

\* C12: no error inside a poll iteration ends the loop: a run_once that failed
\* (in the fetch, the sort, a send or save_state) leaves main in a handler
\* sleeping min(180, 2 * POLL_SECONDS) seconds, at most 180, the process never
\* leaves the loop, and after the sleep a further poll iteration starts.
C12_LoopSurvivesErrors ==
    /\ [](result \in RunOnceErrors =>
            /\ pc = "sleep_backoff"
            /\ slept <= 180
            /\ slept = IF 2 * POLL_SECONDS < 180 THEN 2 * POLL_SECONDS ELSE 180)
    /\ [][InLoop => InLoop']_vars
    /\ [][(InLoop /\ pc # "sleep_backoff" /\ pc' = "sleep_backoff") =>
            result' \in RunOnceErrors]_vars
    /\ (pc = "sleep_backoff") ~> (pc = "loop" /\ slept = 0)

\* a send raised in a run_once of an installation with POLL_SECONDS = 100:
\* the handler sleeps 180 seconds, not 200
C12_Witness ==
    /\ pc = "sleep_backoff"
    /\ result = "send_raised"
    /\ POLL_SECONDS = 100
    /\ slept = 180

\* C13: fetch_recent_comments raises to its caller for every response that is
\* a failure (no answer, a non-success status, a body that is not JSON, a
\* JSON body with errors) or lacks the data/comments/items structure, and
\* returns an empty list only for a well-formed response with zero items.
C13_FetchNeverHidesFailure ==
    fPc = "fetched" =>
        /\ fResp \in FailedResponses \cup MalformedResponses => fOut.exc # "none"
        /\ (fOut.exc = "none" /\ fOut.v = <<>>) => fResp = Response("items", <<>>)

====
